---- MODULE Spec2Model ----
(***************************************************************************)
(* CFAR-CASO detector of module/cfar_process.py (class CFARProcessor).     *)
(*                                                                         *)
(* One call of CFARProcessor.run is modelled as a state machine whose      *)
(* program counter walks the statements of run, CFAR_CASO_Range and        *)
(* CFAR_CASO_Doppler.  Arrays are functions over 0..n-1 (as in Python),    *)
(* Python lists are sequences.  The cube holds squared magnitudes          *)
(* |x|^2 (naturals), so torch.abs(.)**2 is the stored value itself.        *)
(* Means over reference cells are kept as exact fractions <<sum, count>>;  *)
(* comparisons against a mean are cross-multiplied.                        *)
(***************************************************************************)
EXTENDS Integers, Sequences, FiniteSets, TLC

VARIABLES
    input,              \* run's local `input`: 4-D cube, 3-D after the reshape
    detectObj,          \* self.detectObj, the parameter bundle
    pc,                 \* position in run / CFAR_CASO_Range / CFAR_CASO_Doppler
    err,                \* the exception raised ("none" while none)
    stages,             \* the stages started so far, in order
    N_obj,              \* run's N_obj after the range scan
    Ind_obj_Rag,        \* range scan detections, [range, doppler] rows
    noise_obj,          \* range scan noise estimates (fractions)
    snr_obj,            \* range scan SNRs (fractions)
    detected_Rag_Cell,  \* torch.unique(Ind_obj_Rag[:, 0]) as a sorted sequence
    k,                  \* row loop index of the Doppler pass
    Ind_obj,            \* merged (range, doppler) candidates
    i_obj,              \* loop index of the finalization pass
    N_obj_valid,        \* number of valid objects
    Ind_obj_valid,      \* indices of the valid objects
    noise_obj_an,       \* per-antenna noise vectors of the valid objects
    cellInd,            \* reference-cell indices built last by finalization
    ret,                \* what CFAR_CASO_Doppler returned (<<>> before)
    keyIn,              \* two (range, doppler) pairs handed to the key
    keyOut              \* their composite keys

vars == <<input, detectObj, pc, err, stages, N_obj, Ind_obj_Rag, noise_obj,
          snr_obj, detected_Rag_Cell, k, Ind_obj, i_obj, N_obj_valid,
          Ind_obj_valid, noise_obj_an, cellInd, ret, keyIn, keyOut>>

(***************************************************************************)
(* Bounds of the model: the shape of the cube.                              *)
(***************************************************************************)
NumRange == 3
NumDoppler == 3
NumRx == 2
NumTx == 1

\* The weight of the Doppler index in the deduplication key.
KeyWeight == 10000

Min(a, b) == IF a < b THEN a ELSE b

RECURSIVE SumRange(_, _, _)
\* sum of f[i] for i in lo..hi
SumRange(f, lo, hi) == IF lo > hi THEN 0 ELSE f[lo] + SumRange(f, lo + 1, hi)

MaxOver(f, lo, hi) == CHOOSE m \in {f[i] : i \in lo..hi} : \A i \in lo..hi : f[i] <= m

RECURSIVE SortedSeq(_)
\* the members of a finite set of integers in increasing order
SortedSeq(S) ==
    IF S = {} THEN <<>>
    ELSE LET m == CHOOSE x \in S : \A y \in S : x <= y
         IN  <<m>> \o SortedSeq(S \ {m})

SeqSet(s) == {s[i] : i \in 1..Len(s)}

(***************************************************************************)
(* Inputs.  A cell is background, bright on every channel, or bright with  *)
(* one weak channel.                                                       *)
(***************************************************************************)
Kinds == {"bg", "hi", "weak"}
BrightKinds == {"hi", "weak"}

ChannelPower(kind, rx, tx) ==
    CASE kind = "bg" -> 0
      [] kind = "hi" -> 8
      [] kind = "weak" -> IF rx = 0 /\ tx = 0 THEN 4 ELSE 8

Cells == (0..(NumRange - 1)) \X (0..(NumDoppler - 1))

CubeOf(kindOf) ==
    [r \in 0..(NumRange - 1) |->
        [d \in 0..(NumDoppler - 1) |->
            [rx \in 0..(NumRx - 1) |->
                [tx \in 0..(NumTx - 1) |-> ChannelPower(kindOf[<<r, d>>], rx, tx)]]]]

GuardChoices == {<<0, 0>>, <<1, 1>>}
PowerThreChoices == {4, 5}
DetectMethods == {1, 2}

\* gaptot < axis_length - discardCellLeft - discardCellRight on both axes
WindowsFit(p) ==
    /\ p.refWinSize[1] + p.guardWinSize[1] < NumRange - p.discardCellLeft - p.discardCellRight
    /\ p.refWinSize[2] + p.guardWinSize[2] < NumDoppler - p.discardCellLeft - p.discardCellRight

\* the parameter bundles: those whose windows fit both axes (the code does not
\* check it); K0 and the window sizes are integers, so every comparison is exact
Bundles ==
    {p \in [detectMethod : DetectMethods,
            refWinSize : {<<1, 1>>},
            guardWinSize : GuardChoices,
            K0 : {<<2, 2>>},
            discardCellLeft : 0..1,
            discardCellRight : 0..1,
            maxEnable : 0..1,
            powerThre : PowerThreChoices,
            numAntenna : {NumRx * NumTx}] : WindowsFit(p)}

(***************************************************************************)
(* run, lines 43-46: the reshape of (range, doppler, rx, tx) to            *)
(* (range, doppler, rx * tx) in column-major order.                        *)
(***************************************************************************)
Reshape(x) ==
    [r \in 0..(NumRange - 1) |->
        [d \in 0..(NumDoppler - 1) |->
            [a \in 0..(NumRx * NumTx - 1) |-> x[r][d][a % NumRx][a \div NumRx]]]]

NumAnt == NumRx * NumTx

\* torch.sum(torch.abs(input)**2, dim=2) + 1
SigIntegrate(r, d) == SumRange(input[r][d], 0, NumAnt - 1) + 1

\* torch.min(torch.abs(input[r, d, :])**2)
MinPower(r, d) == CHOOSE m \in {input[r][d][a] : a \in 0..(NumAnt - 1)} :
                      \A a \in 0..(NumAnt - 1) : m <= input[r][d][a]

\* a dispatch that takes every positive detectMethod for CASO
IsCASOAnyPositive == detectObj.detectMethod >= 1

\* self.detectObj['detectMethod'] == 1
IsCASO == detectObj.detectMethod = 1

(***************************************************************************)
(* The CASO test shared by both scans.                                     *)
(***************************************************************************)
\* torch.cat((vec[:gaptot], vec, vec[-gaptot:])), vec of length n
PadRange(vec, n, gaptot) ==
    [i \in 0..(n + 2 * gaptot - 1) |->
        IF i < gaptot THEN vec[i]
        ELSE IF i < gaptot + n THEN vec[i - gaptot]
        ELSE vec[(n - gaptot) + (i - gaptot - n)]]

\* torch.cat((vec[-gaptot:], vec, vec[:gaptot]))
PadDoppler(vec, n, gaptot) ==
    [i \in 0..(n + 2 * gaptot - 1) |->
        IF i < gaptot THEN vec[(n - gaptot) + i]
        ELSE IF i < gaptot + n THEN vec[i - gaptot]
        ELSE vec[i - gaptot - n]]

\* cellInda = arange(j - gaptot, j - gapNum) + gaptot
CellIndaFirst(j, cellNum, gapNum) == j
CellIndaLast(j, cellNum, gapNum) == j + cellNum - 1
\* cellIndb = arange(j + gapNum + 1, j + gaptot + 1) + gaptot
CellIndbFirst(j, cellNum, gapNum) == j + gapNum + 1 + (gapNum + cellNum)
CellIndbLast(j, cellNum, gapNum) == j + 2 * (gapNum + cellNum)

\* cellave1 = min(mean(vec[cellInda]), mean(vec[cellIndb])) as the sum of the
\* smaller window (both windows hold cellNum cells)
CellAveSum(vec, j, cellNum, gapNum) ==
    Min(SumRange(vec, CellIndaFirst(j, cellNum, gapNum), CellIndaLast(j, cellNum, gapNum)),
        SumRange(vec, CellIndbFirst(j, cellNum, gapNum), CellIndbLast(j, cellNum, gapNum)))

\* vec[j + gaptot] > K0 * cellave1
ExceedsThreshold(vec, j, cellNum, gapNum, K0) ==
    vec[j + gapNum + cellNum] * cellNum > K0 * CellAveSum(vec, j, cellNum, gapNum)

\* maxEnable == 0 or vec[j + gaptot] > max(vec[cellInda[0] : cellIndb[-1] + 1])
PassesMax(vec, j, cellNum, gapNum) ==
    \/ detectObj.maxEnable = 0
    \/ vec[j + gapNum + cellNum] >
           MaxOver(vec, CellIndaFirst(j, cellNum, gapNum), CellIndbLast(j, cellNum, gapNum))

Detects(vec, j, cellNum, gapNum, K0) ==
    /\ ExceedsThreshold(vec, j, cellNum, gapNum, K0)
    /\ PassesMax(vec, j, cellNum, gapNum)

(***************************************************************************)
(* CFAR_CASO_Range, lines 74-113.                                          *)
(***************************************************************************)
RagCellNum == detectObj.refWinSize[1]
RagGapNum == detectObj.guardWinSize[1]
RagK0 == detectObj.K0[1]
RagLen == NumRange - detectObj.discardCellLeft - detectObj.discardCellRight

\* line 87-88: the trimmed and padded column kk
RangeVec(kk) ==
    PadRange([j \in 0..(RagLen - 1) |-> SigIntegrate(j + detectObj.discardCellLeft, kk)],
             RagLen, RagGapNum + RagCellNum)

RECURSIVE LoopOrder(_, _, _, _)
\* the pairs <<outer, inner>> of a double loop over 0..nOuter-1 and 0..nInner-1,
\* in the order the loop visits them, from <<o, i>> on
LoopOrder(o, i, nOuter, nInner) ==
    IF o >= nOuter \/ nInner <= 0 THEN <<>>
    ELSE IF i >= nInner THEN LoopOrder(o + 1, 0, nOuter, nInner)
    ELSE <<<<o, i>>>> \o LoopOrder(o, i + 1, nOuter, nInner)

\* lines 105-106 for column kk = c[1] and position j = c[2]
RangeDetects(c) == Detects(RangeVec(c[1]), c[2], RagCellNum, RagGapNum, RagK0)

\* the <<kk, j>> at which lines 107-110 run, in loop order
RangeHits == SelectSeq(LoopOrder(0, 0, NumDoppler, RagLen), RangeDetects)

\* line 108: Ind_obj.append([j + discardCellLeft, k])
RangeInd(c) == <<c[2] + detectObj.discardCellLeft, c[1]>>
\* line 109: noise_obj.append(cellave1), the mean as <<sum, count>>
RangeNoise(c) == <<CellAveSum(RangeVec(c[1]), c[2], RagCellNum, RagGapNum), RagCellNum>>
\* line 110: snr_obj.append(vec[j + gaptot] / cellave1)
RangeSnr(c) ==
    <<RangeVec(c[1])[c[2] + RagGapNum + RagCellNum] * RagCellNum,
      CellAveSum(RangeVec(c[1]), c[2], RagCellNum, RagGapNum)>>

(***************************************************************************)
(* CFAR_CASO_Doppler, lines 133-196: the Doppler pass.                     *)
(***************************************************************************)
DopCellNum == detectObj.refWinSize[2]
DopGapNum == detectObj.guardWinSize[2]
DopK0 == detectObj.K0[2]
DopLen == NumDoppler - detectObj.discardCellLeft - detectObj.discardCellRight

\* lines 155-156: the trimmed and padded row of range bin r
DopplerVec(r) ==
    PadDoppler([j \in 0..(DopLen - 1) |-> SigIntegrate(r, j + detectObj.discardCellLeft)],
               DopLen, DopGapNum + DopCellNum)

\* lines 151-152: the Doppler indices the range scan recorded for range bin r
IndR(r) == {Ind_obj_Rag[i][2] : i \in {n \in 1..Len(Ind_obj_Rag) : Ind_obj_Rag[n][1] = r}}

\* line 178: torch.isin(indR, j).any()
CrossConfirmed(r, j) == j \in IndR(r)

\* lines 163-180 and 185: ind_obj_0 of the row of range bin r
RowResult(r) ==
    LET vec == DopplerVec(r)
        Hit(c) == /\ Detects(vec, c[2], DopCellNum, DopGapNum, DopK0)
                  /\ CrossConfirmed(r, c[2])
        Pair(c) == <<r, c[2] + detectObj.discardCellLeft>>
        hits == SelectSeq(LoopOrder(0, 0, 1, DopLen), Hit)
    IN  [n \in 1..Len(hits) |-> Pair(hits[n])]

\* a key that forgets the weight of the Doppler index
DedupKeyUnweighted(p) == p[1] + p[2]

\* lines 192-193: loc + 10000 * dop
DedupKey(p) == p[1] + KeyWeight * p[2]

\* the orders in which a set may be iterated
Orders(S) == {s \in [1..Cardinality(S) -> S] : \A a, b \in 1..Cardinality(S) : s[a] = s[b] => a = b}

\* an extension whose membership test is inverted
ExtensionInverted(merged, ind_obj_0, order) ==
    LET seen == {DedupKey(merged[n]) : n \in 1..Len(merged)}
        Keep(n) == order[n] \in seen
        idx == SelectSeq([n \in 1..Min(Len(ind_obj_0), Len(order)) |-> n], Keep)
    IN  [n \in 1..Len(idx) |-> ind_obj_0[idx[n]]]

\* line 196: zip(ind_obj_0, ind_obj_0_sum) walks the list beside the SET of keys,
\* iterated in the order `order`; an element is kept when the key beside it is new
Extension(merged, ind_obj_0, order) ==
    LET seen == {DedupKey(merged[n]) : n \in 1..Len(merged)}
        Keep(n) == order[n] \notin seen
        idx == SelectSeq([n \in 1..Min(Len(ind_obj_0), Len(order)) |-> n], Keep)
    IN  [n \in 1..Len(idx) |-> ind_obj_0[idx[n]]]

\* lines 183-196
Merge(merged, ind_obj_0, order) ==
    IF ind_obj_0 = <<>> THEN merged
    ELSE IF merged = <<>> THEN ind_obj_0
    ELSE merged \o Extension(merged, ind_obj_0, order)

(***************************************************************************)
(* CFAR_CASO_Doppler, lines 198-231: the finalization pass.                *)
(***************************************************************************)
Arange(lo, hi) == [n \in 1..(IF hi > lo THEN hi - lo ELSE 0) |-> lo + n - 1]

\* lines 214-222
BuildCellInd(ind_range) ==
    LET gapNum == RagGapNum
        gaptot == RagGapNum + RagCellNum
    IN  IF ind_range <= gaptot
        THEN Arange(ind_range + gapNum + 1, ind_range + gaptot + 1)
                 \o Arange(ind_range + gapNum + 1, ind_range + gaptot + 1)
        ELSE IF ind_range >= NumRange - gaptot
        THEN Arange(ind_range - gaptot, ind_range - gapNum)
                 \o Arange(ind_range - gaptot, ind_range - gapNum)
        ELSE Arange(ind_range - gaptot, ind_range - gapNum)
                 \o Arange(ind_range + gapNum + 1, ind_range + gaptot + 1)

\* an index a tensor of NumRange rows accepts (negative ones count from the end)
Indexable(x) == -NumRange <= x /\ x < NumRange
RowAt(x) == IF x < 0 THEN x + NumRange ELSE x

RECURSIVE SumRows(_, _, _, _)
SumRows(ci, n, d, a) ==
    IF n > Len(ci) THEN 0 ELSE input[RowAt(ci[n])][d][a] + SumRows(ci, n + 1, d, a)

\* line 228: torch.mean(|input[cellInd, ind_doppler, :]|^2, dim=0), per antenna <<sum, count>>
NoiseVector(ci, d) == [a \in 0..(NumAnt - 1) |-> <<SumRows(ci, 1, d, a), Len(ci)>>]

\* a filter that also rejects a candidate exactly at powerThre
BelowPowerThreInclusive(p) == MinPower(p[1], p[2]) <= detectObj.powerThre

\* line 210: the candidate is skipped
BelowPowerThre(p) == MinPower(p[1], p[2]) < detectObj.powerThre

(***************************************************************************)
(* The state machine.                                                      *)
(***************************************************************************)
Blank ==
    /\ err = "none"
    /\ stages = <<>>
    /\ N_obj = 0
    /\ Ind_obj_Rag = <<>>
    /\ noise_obj = <<>>
    /\ snr_obj = <<>>
    /\ detected_Rag_Cell = <<>>
    /\ k = 0
    /\ Ind_obj = <<>>
    /\ i_obj = 0
    /\ N_obj_valid = 0
    /\ Ind_obj_valid = <<>>
    /\ noise_obj_an = <<>>
    /\ cellInd = <<>>
    /\ ret = <<>>

\* the scenes: one kind everywhere; one cell on a background; two cells on a
\* background
UniformScenes == {[c \in Cells |-> kind] : kind \in Kinds}
ImpulseScenes ==
    {[c \in Cells |-> IF c = t THEN kind ELSE "bg"] : t \in Cells, kind \in BrightKinds}
PairScenes ==
    {[c \in Cells |-> IF c = t[1] THEN kinds[1] ELSE IF c = t[2] THEN kinds[2] ELSE "bg"] :
        t \in {u \in Cells \X Cells : u[1] # u[2]}, kinds \in BrightKinds \X BrightKinds}
Scenes == UniformScenes \cup ImpulseScenes \cup PairScenes

\* the scenes in which every cell is background or bright
DenseScenes == [Cells -> {"bg", "hi"}]

Init ==
    /\ Blank
    /\ pc = "start"
    /\ input \in {CubeOf(m) : m \in Scenes}
    /\ detectObj \in Bundles
    /\ keyIn = <<>>
    /\ keyOut = <<>>

\* lines 44-46
Combine ==
    /\ pc = "start"
    /\ input' = Reshape(input)
    /\ stages' = Append(stages, "combine")
    /\ pc' = "dispatch"
    /\ UNCHANGED <<detectObj, err, N_obj, Ind_obj_Rag, noise_obj, snr_obj,
                   detected_Rag_Cell, k, Ind_obj, i_obj, N_obj_valid, Ind_obj_valid,
                   noise_obj_an, cellInd, ret, keyIn, keyOut>>

\* lines 57-58
UnknownMethod ==
    /\ pc = "dispatch"
    /\ ~IsCASO
    /\ err' = "ValueError: Unknown Detect Method!"
    /\ pc' = "raised"
    /\ UNCHANGED <<input, detectObj, stages, N_obj, Ind_obj_Rag, noise_obj, snr_obj,
                   detected_Rag_Cell, k, Ind_obj, i_obj, N_obj_valid, Ind_obj_valid,
                   noise_obj_an, cellInd, ret, keyIn, keyOut>>

\* line 52: the whole of CFAR_CASO_Range
RangeScan ==
    /\ pc = "dispatch"
    /\ IsCASO
    /\ stages' = Append(stages, "range")
    /\ LET hits == RangeHits
       IN  /\ N_obj' = Len(hits)
           /\ Ind_obj_Rag' = [n \in 1..Len(hits) |-> RangeInd(hits[n])]
           /\ noise_obj' = [n \in 1..Len(hits) |-> RangeNoise(hits[n])]
           /\ snr_obj' = [n \in 1..Len(hits) |-> RangeSnr(hits[n])]
    /\ pc' = "doppler"
    /\ UNCHANGED <<input, detectObj, err, detected_Rag_Cell, k, Ind_obj, i_obj,
                   N_obj_valid, Ind_obj_valid, noise_obj_an, cellInd, ret, keyIn, keyOut>>

\* lines 134-145; Ind_obj_Rag[:, 0] of the 1-D tensor torch.tensor([]) raises
DopplerStart ==
    /\ pc = "doppler"
    /\ stages' = Append(stages, "doppler")
    /\ IF Ind_obj_Rag = <<>>
       THEN /\ err' = "IndexError: too many indices"
            /\ pc' = "raised"
            /\ UNCHANGED detected_Rag_Cell
       ELSE /\ detected_Rag_Cell' = SortedSeq({Ind_obj_Rag[n][1] : n \in 1..Len(Ind_obj_Rag)})
            /\ pc' = "rows"
            /\ UNCHANGED err
    /\ k' = 0
    /\ Ind_obj' = <<>>
    /\ UNCHANGED <<input, detectObj, N_obj, Ind_obj_Rag, noise_obj, snr_obj, i_obj,
                   N_obj_valid, Ind_obj_valid, noise_obj_an, cellInd, ret, keyIn, keyOut>>

\* lines 148-196, one row
DopplerRow ==
    /\ pc = "rows"
    /\ k < Len(detected_Rag_Cell)
    /\ LET ind_obj_0 == RowResult(detected_Rag_Cell[k + 1])
       IN  \E order \in Orders({DedupKey(ind_obj_0[n]) : n \in 1..Len(ind_obj_0)}) :
               Ind_obj' = Merge(Ind_obj, ind_obj_0, order)
    /\ k' = k + 1
    /\ UNCHANGED <<input, detectObj, pc, err, stages, N_obj, Ind_obj_Rag, noise_obj,
                   snr_obj, detected_Rag_Cell, i_obj, N_obj_valid, Ind_obj_valid,
                   noise_obj_an, cellInd, ret, keyIn, keyOut>>

\* lines 198-201
FinalizeStart ==
    /\ pc = "rows"
    /\ k = Len(detected_Rag_Cell)
    /\ stages' = Append(stages, "finalize")
    /\ i_obj' = 0
    /\ N_obj_valid' = 0
    /\ Ind_obj_valid' = <<>>
    /\ noise_obj_an' = <<>>
    /\ pc' = "finalize"
    /\ UNCHANGED <<input, detectObj, err, N_obj, Ind_obj_Rag, noise_obj, snr_obj,
                   detected_Rag_Cell, k, Ind_obj, cellInd, ret, keyIn, keyOut>>

\* lines 204-228, one candidate
FinalizeObj ==
    /\ pc = "finalize"
    /\ i_obj < Len(Ind_obj)
    /\ LET cand == Ind_obj[i_obj + 1]
           ci == BuildCellInd(cand[1])
       IN  IF BelowPowerThre(cand)
           THEN /\ i_obj' = i_obj + 1
                /\ UNCHANGED <<pc, err, N_obj_valid, Ind_obj_valid, noise_obj_an, cellInd>>
           ELSE /\ cellInd' = ci
                /\ N_obj_valid' = N_obj_valid + 1
                /\ Ind_obj_valid' = Append(Ind_obj_valid, cand)
                /\ IF \A n \in 1..Len(ci) : Indexable(ci[n])
                   THEN /\ noise_obj_an' = Append(noise_obj_an, NoiseVector(ci, cand[2]))
                        /\ i_obj' = i_obj + 1
                        /\ UNCHANGED <<pc, err>>
                   ELSE /\ err' = "IndexError: index out of range"
                        /\ pc' = "raised"
                        /\ UNCHANGED <<noise_obj_an, i_obj>>
    /\ UNCHANGED <<input, detectObj, stages, N_obj, Ind_obj_Rag, noise_obj, snr_obj,
                   detected_Rag_Cell, k, Ind_obj, ret, keyIn, keyOut>>

\* line 231
DopplerReturn ==
    /\ pc = "finalize"
    /\ i_obj = Len(Ind_obj)
    /\ ret' = <<N_obj_valid, Ind_obj_valid, noise_obj_an>>
    /\ pc' = "unpack"
    /\ UNCHANGED <<input, detectObj, err, stages, N_obj, Ind_obj_Rag, noise_obj, snr_obj,
                   detected_Rag_Cell, k, Ind_obj, i_obj, N_obj_valid, Ind_obj_valid,
                   noise_obj_an, cellInd, keyIn, keyOut>>

\* line 55: four names are bound to the tuple CFAR_CASO_Doppler returned
Unpack ==
    /\ pc = "unpack"
    /\ Len(ret) # 4
    /\ err' = "ValueError: not enough values to unpack"
    /\ pc' = "raised"
    /\ UNCHANGED <<input, detectObj, stages, N_obj, Ind_obj_Rag, noise_obj, snr_obj,
                   detected_Rag_Cell, k, Ind_obj, i_obj, N_obj_valid, Ind_obj_valid,
                   noise_obj_an, cellInd, ret, keyIn, keyOut>>

Next ==
    \/ Combine
    \/ UnknownMethod
    \/ RangeScan
    \/ DopplerStart
    \/ DopplerRow
    \/ FinalizeStart
    \/ FinalizeObj
    \/ DopplerReturn
    \/ Unpack

Spec == Init /\ [][Next]_vars

\* the same run on the dense scenes
InitDense ==
    /\ Blank
    /\ pc = "start"
    /\ input \in {CubeOf(m) : m \in DenseScenes}
    /\ detectObj \in Bundles
    /\ keyIn = <<>>
    /\ keyOut = <<>>

SpecDense == InitDense /\ [][Next]_vars

(***************************************************************************)
(* The deduplication key as a function of its own: two pairs are drawn,    *)
(* among them range indices at and above the key's weight, and keyed.      *)
(***************************************************************************)
MaxKeyDoppler == 2
KeyRanges == {0, 1, KeyWeight, KeyWeight + 1}
KeyPairs == KeyRanges \X (0..MaxKeyDoppler)

InitKey ==
    /\ Blank
    /\ pc = "key"
    /\ input = <<>>
    /\ detectObj = <<>>
    /\ keyIn \in KeyPairs \X KeyPairs
    /\ keyOut = <<>>

ComputeKeys ==
    /\ pc = "key"
    /\ keyOut' = <<DedupKey(keyIn[1]), DedupKey(keyIn[2])>>
    /\ pc' = "keyed"
    /\ UNCHANGED <<input, detectObj, err, stages, N_obj, Ind_obj_Rag, noise_obj, snr_obj,
                   detected_Rag_Cell, k, Ind_obj, i_obj, N_obj_valid, Ind_obj_valid,
                   noise_obj_an, cellInd, ret, keyIn>>

NextKey == ComputeKeys

SpecKey == InitKey /\ [][NextKey]_vars

(***************************************************************************)
(* Properties.                                                             *)
(***************************************************************************)
Pipeline == <<"combine", "range", "doppler", "finalize">>
IsPrefix(s, t) == Len(s) <= Len(t) /\ \A n \in 1..Len(s) : s[n] = t[n]
Started(stage) == stage \in SeqSet(stages)
NoDuplicates(s) == \A a, b \in 1..Len(s) : s[a] = s[b] => a = b

\* the cube is one value everywhere
UniformCube == \A c, e \in Cells : input[c[1]][c[2]] = input[e[1]][e[2]]

\* the cube is a uniform background but for the cell c, which exceeds K0 times the
\* background on both axes and has at least powerThre on every channel
SingleImpulseAt(c) ==
    /\ \A e, f \in Cells \ {c} : input[e[1]][e[2]] = input[f[1]][f[2]]
    /\ \A e \in Cells \ {c} :
           /\ SigIntegrate(c[1], c[2]) > RagK0 * SigIntegrate(e[1], e[2])
           /\ SigIntegrate(c[1], c[2]) > DopK0 * SigIntegrate(e[1], e[2])
    /\ MinPower(c[1], c[2]) >= detectObj.powerThre

\* C1: a single impulse above K0 times a uniform background, with every channel at
\* or above powerThre, comes out of the range scan followed by the Doppler scan as
\* exactly one valid object, at the impulse's (range, Doppler) indices.
C1_SingleImpulseOneObject ==
    (pc \in {"unpack", "raised"} /\ IsCASO) =>
        \A c \in Cells : SingleImpulseAt(c) =>
            /\ ret # <<>>
            /\ ret[1] = 1
            /\ ret[2] = <<c>>

\* C2: with detectMethod = 1, run goes through combine, range scan, Doppler scan and
\* finalize in that order and ends without raising.
C2_RunEndsNormally ==
    IsCASO => (IsPrefix(stages, Pipeline) /\ pc # "raised")

\* C3: on a cube of one value the range scan detects nothing and the Doppler scan,
\* run on that result, detects nothing either and raises no exception.
C3_UniformCubeEmptyScans ==
    (pc \notin {"start", "dispatch"} /\ IsCASO /\ UniformCube) =>
        /\ Ind_obj_Rag = <<>>
        /\ Ind_obj = <<>>
        /\ err = "none"

\* the cell under test is the maximum of the window over both reference windows
\* and the guard band
IsWindowMax(vec, j, cellNum, gapNum) ==
    vec[j + gapNum + cellNum] =
        MaxOver(vec, CellIndaFirst(j, cellNum, gapNum), CellIndbLast(j, cellNum, gapNum))

\* C4: the range scan reports a scanned cell iff it exceeds K0 * cellave1 and, with
\* maxEnable set, is the maximum of its full window.
C4_MaxEnableReportsWindowMax ==
    (pc \notin {"start", "dispatch"} /\ IsCASO) =>
        \A kk \in 0..(NumDoppler - 1), j \in 0..(RagLen - 1) :
            (<<j + detectObj.discardCellLeft, kk>> \in SeqSet(Ind_obj_Rag))
                <=> /\ ExceedsThreshold(RangeVec(kk), j, RagCellNum, RagGapNum, RagK0)
                    /\ (detectObj.maxEnable = 1 =>
                            IsWindowMax(RangeVec(kk), j, RagCellNum, RagGapNum))

\* C5: with detectMethod other than 1, run raises the configuration error, and no
\* step of the range scan, the Doppler scan or the finalization has run before it:
\* no detection record exists.
C5_UnknownMethodRaisesBeforeScanning ==
    (detectObj.detectMethod # 1) =>
        /\ pc \in {"start", "dispatch", "raised"}
        /\ pc = "dispatch" => ENABLED UnknownMethod
        /\ pc = "raised" => err = "ValueError: Unknown Detect Method!"
        /\ ~Started("range") /\ ~Started("doppler") /\ ~Started("finalize")
        /\ N_obj = 0 /\ Ind_obj_Rag = <<>> /\ noise_obj = <<>> /\ snr_obj = <<>>
        /\ Ind_obj = <<>> /\ N_obj_valid = 0 /\ Ind_obj_valid = <<>> /\ ret = <<>>

C5_Witness ==
    /\ detectObj.detectMethod = 2
    /\ pc = "raised"
    /\ stages = <<"combine">>

\* the candidates among the first n of Ind_obj whose weakest channel has at least
\* powerThre
AtOrAbovePowerThre(p) == MinPower(p[1], p[2]) >= detectObj.powerThre
KeptOfFirst(n) == SelectSeq(SubSeq(Ind_obj, 1, n), AtOrAbovePowerThre)

\* the candidates the finalization pass has decided: those before i_obj, and the one
\* at i_obj when its noise estimate raised after it was appended
Decided ==
    IF pc = "raised" /\ err = "IndexError: index out of range" THEN i_obj + 1 ELSE i_obj

\* C6: a candidate of the finalization pass is left out of the valid objects when
\* its minimum channel power is below powerThre and is in them, and counted, when
\* it is at or above; the returned count is the number of those in.
C6_PowerThreFilter ==
    Started("finalize") =>
        /\ Ind_obj_valid = KeptOfFirst(Decided)
        /\ N_obj_valid = Len(Ind_obj_valid)
        /\ ret # <<>> => /\ ret[2] = KeptOfFirst(Len(Ind_obj))
                         /\ ret[1] = Len(ret[2])

C6_Witness ==
    /\ ret # <<>>
    /\ ret[1] >= 1
    /\ \E n \in 1..Len(Ind_obj) : MinPower(Ind_obj[n][1], Ind_obj[n][2]) = detectObj.powerThre - 1
    /\ \E n \in 1..Len(Ind_obj) : MinPower(Ind_obj[n][1], Ind_obj[n][2]) >= detectObj.powerThre

\* the pairs the rows before row n confirmed
ConfirmedBefore(n) == UNION {SeqSet(RowResult(detected_Rag_Cell[m])) : m \in 1..n}

C8_CollectedPairsCrossConfirmed ==
    Started("doppler") => \A n \in 1..Len(Ind_obj) : Ind_obj[n] \in SeqSet(Ind_obj_Rag)

\* C9: with gaptot < R - discardCellLeft - discardCellRight, every reference-cell
\* index the finalization pass builds lies in [0, R).
C9_FinalizeIndicesInBounds ==
    (Started("finalize") /\ WindowsFit(detectObj)) =>
        \A n \in 1..Len(cellInd) : 0 <= cellInd[n] /\ cellInd[n] < NumRange

\* C10 as stated: two distinct pairs whose Doppler indices are below 10000 get
\* different keys.
C10_DistinctKeysDopplerBelowWeight ==
    (pc = "keyed" /\ keyIn[1] # keyIn[2]
        /\ keyIn[1][2] < KeyWeight /\ keyIn[2][2] < KeyWeight)
    => keyOut[1] # keyOut[2]

\* C10, amended: two distinct pairs whose range indices are in [0, 10000) get
\* different keys.
C10_DistinctKeysRangeBelowWeight ==
    (pc = "keyed" /\ keyIn[1] # keyIn[2]
        /\ keyIn[1][1] \in 0..(KeyWeight - 1) /\ keyIn[2][1] \in 0..(KeyWeight - 1))
    => keyOut[1] # keyOut[2]

C10_Witness ==
    /\ pc = "keyed"
    /\ keyIn = <<<<1, 0>>, <<0, 1>>>>
    /\ keyOut = <<1, KeyWeight>>

====
